---- MODULE Spec2Model ----
(***************************************************************************)
(* European barrier option pricing by Monte Carlo (src/barrier_options.py). *)
(*                                                                         *)
(* The program's floats are modelled as fixed-point integers: the integer  *)
(* v stands for the real number v / ONE, and every product or quotient     *)
(* rounds down to the next representable number, as a float operation      *)
(* rounds to the nearest one.  The float value "not a number" is the       *)
(* distinguished value NaN; arithmetic propagates it and every comparison  *)
(* with it is false, as in IEEE 754.                                       *)
(*                                                                         *)
(* The process-wide numpy generator is the variable rng.  Its stream is an *)
(* abstraction of the Mersenne Twister: a deterministic successor function *)
(* on a small state space, np.random.seed setting the state from the seed. *)
(***************************************************************************)
EXTENDS Integers, Sequences, FiniteSets, TLC

VARIABLES
    pc,      \* "running", or "exited" once an exception has ended the process
    option,  \* <<>> or <<o>>: the BarrierOption object the caller holds
    ctor,    \* <<>> or <<c>>: the last call of BarrierOption.__init__
    rng,     \* the state of numpy's process-wide generator (np.random)
    cp,      \* <<>> or <<e>>: the last evaluation of contract_payoff
    mc,      \* <<>> or <<m>>: the last call of monte_carlo_pricing
    ref      \* <<>> or <<m>>: an earlier pricing call the caller kept the result of

vars == <<pc, option, ctor, rng, cp, mc, ref>>

---------------------------------------------------------------------------
(* Bounds of the model *)

MaxSteps == 2    \* largest steps argument
MaxIters == 2    \* largest num_iters argument
MaxSeed  == 1    \* seeds are 0..MaxSeed
RngMod   == 5    \* number of generator states
ExpTerms == 10   \* terms of the exponential series
MaxLater == 2    \* calls counted after a kept one

---------------------------------------------------------------------------
(* Floats *)

ONE == 1024
NaN == -1000000

IsNaN(x) == x = NaN

FAdd(a, b) == IF IsNaN(a) \/ IsNaN(b) THEN NaN ELSE a + b
FSub(a, b) == IF IsNaN(a) \/ IsNaN(b) THEN NaN ELSE a - b
FMul(a, b) == IF IsNaN(a) \/ IsNaN(b) THEN NaN ELSE (a * b) \div ONE
\* a / b for b # 0 (Python raises ZeroDivisionError for b = 0: see the callers)
FDiv(a, b) == IF IsNaN(a) \/ IsNaN(b) THEN NaN ELSE (a * ONE) \div b
FNeg(a)    == IF IsNaN(a) THEN NaN ELSE -a

FLt(a, b) == ~IsNaN(a) /\ ~IsNaN(b) /\ a < b
FGt(a, b) == ~IsNaN(a) /\ ~IsNaN(b) /\ a > b
FGe(a, b) == ~IsNaN(a) /\ ~IsNaN(b) /\ a >= b
FLe(a, b) == ~IsNaN(a) /\ ~IsNaN(b) /\ a <= b

RECURSIVE Isqrt(_, _, _)
\* the largest s in lo..hi with s * s <= n, by bisection
Isqrt(n, lo, hi) ==
    IF lo >= hi THEN lo
    ELSE LET mid == (lo + hi + 1) \div 2
         IN  IF mid * mid <= n THEN Isqrt(n, mid, hi) ELSE Isqrt(n, lo, mid - 1)

\* np.sqrt: nan (with a warning) for a negative argument
Sqrt(x) == IF IsNaN(x) \/ x < 0 THEN NaN ELSE Isqrt(x * ONE, 0, x + ONE)

RECURSIVE ExpSeries(_, _, _)
ExpSeries(x, term, k) ==
    IF k > ExpTerms \/ term = 0 THEN 0
    ELSE term + ExpSeries(x, (term * x) \div (k * ONE), k + 1)

\* np.exp
Exp(x) ==
    IF IsNaN(x) THEN NaN
    ELSE IF x >= 0 THEN ExpSeries(x, ONE, 1)
    ELSE (ONE * ONE) \div ExpSeries(-x, ONE, 1)

\* np.maximum(a, b): propagates nan
Maximum(a, b) == IF IsNaN(a) \/ IsNaN(b) THEN NaN ELSE IF a >= b THEN a ELSE b

RECURSIVE SeqMax(_)
\* np.max over one row: propagates nan
SeqMax(s) ==
    IF Len(s) = 1 THEN s[1]
    ELSE LET m == SeqMax(Tail(s))
         IN  IF IsNaN(s[1]) \/ IsNaN(m) THEN NaN ELSE IF s[1] >= m THEN s[1] ELSE m

RECURSIVE SeqMin(_)
\* np.min over one row: propagates nan
SeqMin(s) ==
    IF Len(s) = 1 THEN s[1]
    ELSE LET m == SeqMin(Tail(s))
         IN  IF IsNaN(s[1]) \/ IsNaN(m) THEN NaN ELSE IF s[1] <= m THEN s[1] ELSE m

RECURSIVE SeqSum(_)
SeqSum(s) == IF s = <<>> THEN 0 ELSE FAdd(s[1], SeqSum(Tail(s)))

\* np.mean: nan (with a warning) for an empty array
Mean(s) ==
    IF s = <<>> THEN NaN
    ELSE LET t == SeqSum(s) IN IF IsNaN(t) THEN NaN ELSE t \div Len(s)

---------------------------------------------------------------------------
(* The caller's record of an earlier pricing call *)

\* What the caller keeps of a call that returned: its arguments, the paths it
\* plotted or evaluated, and the estimate.
Kept(m) ==
    [self |-> m.self, steps |-> m.steps, num_iters |-> m.num_iters,
     seed |-> m.seed, cp |-> m.cp, estimated_value |-> m.estimated_value,
     later |-> 0]

\* One more call made after the kept one.
Later(r) ==
    IF r = <<>> THEN r
    ELSE << [r[1] EXCEPT !.later = IF @ < MaxLater THEN @ + 1 ELSE @] >>

---------------------------------------------------------------------------
(* BarrierOption.__init__ *)

OptionKinds  == {"call", "put"}
BarrierKinds == {"up_and_out", "down_and_out", "up_and_in", "down_and_in"}

\* The result of one call of __init__(a.option_type, ..., a.risk_free_rate):
\* exit says whether sys.exit() was reached, self holds the attributes stored
\* on the new object (<<>>: none, <<o>>: the eight of lines 32-39).
BarrierOptionInit(a) ==
    IF a.option_type # "call" /\ a.option_type # "put"
        THEN [exit |-> TRUE, self |-> <<>>]
    ELSE IF    a.barrier_type # "up_and_out" /\ a.barrier_type # "down_and_out"
            /\ a.barrier_type # "up_and_in"  /\ a.barrier_type # "down_and_in"
        THEN [exit |-> TRUE, self |-> <<>>]
    ELSE IF FLt(a.volatility, 0) \/ FGt(a.volatility, ONE)
        THEN [exit |-> TRUE, self |-> <<>>]
    ELSE [exit |-> FALSE,
          self |-> << [option_type    |-> a.option_type,
                       barrier_type   |-> a.barrier_type,
                       S0             |-> a.S0,
                       K              |-> a.K,
                       B              |-> a.B,
                       T              |-> a.T,
                       volatility     |-> a.volatility,
                       risk_free_rate |-> a.risk_free_rate] >>]

\* option = BarrierOption(...): the caller holds the object only when __init__
\* returns; sys.exit() ends the process and all it held.  cp and mc record the
\* calls made on the object held, so a new object starts without any.
Construct(a) ==
    /\ pc = "running"
    /\ \E r \in {BarrierOptionInit(a)} :
           /\ ctor' = << [args |-> a, exit |-> r.exit, self |-> r.self] >>
           /\ pc' = IF r.exit THEN "exited" ELSE pc
           /\ option' = IF r.exit THEN <<>> ELSE r.self
           /\ ref' = IF r.exit THEN <<>> ELSE Later(ref)
    /\ cp' = <<>>
    /\ mc' = <<>>
    /\ UNCHANGED rng

---------------------------------------------------------------------------
(* BarrierOption.present_value, vanilla_payoff, contract_payoff *)

\* np.array(value) * np.exp(-self.risk_free_rate * self.T)
present_value(self, value) ==
    LET d == Exp(FMul(FNeg(self.risk_free_rate), self.T))
    IN  [i \in 1..Len(value) |-> FMul(value[i], d)]

\* vanilla_payoff without the floor at 0
vanilla_payoff_signed(self, expiration_price) ==
    IF self.option_type = "call"
        THEN FSub(expiration_price, self.K)
        ELSE FSub(self.K, expiration_price)

\* Lines 87-94
vanilla_payoff(self, expiration_price) ==
    IF self.option_type = "call"
        THEN Maximum(FSub(expiration_price, self.K), 0)
        ELSE Maximum(FSub(self.K, expiration_price), 0)

\* barrier_reached with strict comparisons (> and < for >= and <=)
barrier_reached_strict(self, price_series) ==
    IF self.barrier_type = "up_and_out" \/ self.barrier_type = "up_and_in"
        THEN [i \in 1..Len(price_series) |->
                 IF FGt(SeqMax(price_series[i]), self.B) THEN 1 ELSE 0]
        ELSE [i \in 1..Len(price_series) |->
                 IF FLt(SeqMin(price_series[i]), self.B) THEN 1 ELSE 0]

\* Lines 113-114 and 134-135: np.where(max_price >= B, 1, 0) for the up kinds,
\* np.where(min_price <= B, 1, 0) for the down kinds, one entry per row.
barrier_reached(self, price_series) ==
    IF self.barrier_type = "up_and_out" \/ self.barrier_type = "up_and_in"
        THEN [i \in 1..Len(price_series) |->
                 IF FGe(SeqMax(price_series[i]), self.B) THEN 1 ELSE 0]
        ELSE [i \in 1..Len(price_series) |->
                 IF FLe(SeqMin(price_series[i]), self.B) THEN 1 ELSE 0]

\* contract_payoff reading the row's extreme price (max_price, min_price)
\* where it should read the row's last element
contract_payoff_extreme(self, price_series) ==
    LET reached == barrier_reached(self, price_series)
        up      == self.barrier_type = "up_and_out" \/ self.barrier_type = "up_and_in"
        out     == self.barrier_type = "up_and_out" \/ self.barrier_type = "down_and_out"
        ext(i)  == IF up THEN SeqMax(price_series[i]) ELSE SeqMin(price_series[i])
    IN  [i \in 1..Len(reached) |->
            IF (reached[i] = 1) = out THEN 0 ELSE vanilla_payoff(self, ext(i))]

\* contract_payoff with the in kinds paying like the out kinds (the test of
\* lines 126 and 147 written == 1)
contract_payoff_in_as_out(self, price_series) ==
    LET reached  == barrier_reached(self, price_series)
        final(i) == price_series[i][Len(price_series[i])]
    IN  [i \in 1..Len(reached) |->
            IF reached[i] = 1 THEN 0 ELSE vanilla_payoff(self, final(i))]

\* Lines 115-151: the four loops appending 0 or the vanilla payoff of the
\* row's last element.
contract_payoff(self, price_series) ==
    LET reached  == barrier_reached(self, price_series)
        final(i) == price_series[i][Len(price_series[i])]
    IN  IF self.barrier_type = "up_and_out" \/ self.barrier_type = "up_and_in"
        THEN IF self.barrier_type = "up_and_out"
             THEN [i \in 1..Len(reached) |->
                      IF reached[i] = 1 THEN 0 ELSE vanilla_payoff(self, final(i))]
             ELSE [i \in 1..Len(reached) |->
                      IF reached[i] = 0 THEN 0 ELSE vanilla_payoff(self, final(i))]
        ELSE IF self.barrier_type = "down_and_out"
             THEN [i \in 1..Len(reached) |->
                      IF reached[i] = 1 THEN 0 ELSE vanilla_payoff(self, final(i))]
             ELSE [i \in 1..Len(reached) |->
                      IF reached[i] = 0 THEN 0 ELSE vanilla_payoff(self, final(i))]

\* What one evaluation of contract_payoff leaves to observe.
Evaluation(self, price_series) ==
    [self            |-> self,
     price_series    |-> price_series,
     barrier_reached |-> barrier_reached(self, price_series),
     payoff          |-> contract_payoff(self, price_series)]

\* option.contract_payoff(price_series), called by the user of the class
ContractPayoff(price_series) ==
    /\ pc = "running"
    /\ option # <<>>
    /\ cp' = << Evaluation(option[1], price_series) >>
    /\ UNCHANGED <<pc, option, ctor, rng, mc, ref>>

---------------------------------------------------------------------------
(* The process-wide generator *)

\* np.random.seed(seed)
Seeded(seed) == seed % RngMod

\* one standard-normal variate, and the generator's state after drawing it
Variate(s) == ((s % 3) - 1) * ONE
RngNext(s) == (s + 1) % RngMod

RECURSIVE RngAfter(_, _)
RngAfter(s, draws) == IF draws = 0 THEN s ELSE RngAfter(RngNext(s), draws - 1)

\* np.random.normal(size=(num_iters, steps)): filled row by row from the stream
Normal(s, num_iters, steps) ==
    [i \in 1..num_iters |->
        [j \in 1..steps |-> Variate(RngAfter(s, (i - 1) * steps + (j - 1)))]]

---------------------------------------------------------------------------
(* BarrierOption.monte_carlo_pricing *)

HALF == ONE \div 2

\* LogReturn with the variate not scaled by the volatility
LogReturn_unscaled(self, steps, z) ==
    LET dt    == FDiv(self.T, steps * ONE)
        drift == FSub(self.risk_free_rate,
                      FMul(HALF, FMul(self.volatility, self.volatility)))
    IN  FAdd(FMul(drift, dt), FMul(Sqrt(dt), z))

\* the argument of np.exp on line 176, for one variate z
LogReturn(self, steps, z) ==
    LET dt              == FDiv(self.T, steps * ONE)
        step_volatility == FMul(self.volatility, Sqrt(dt))
        drift           == FSub(self.risk_free_rate,
                                FMul(HALF, FMul(self.volatility, self.volatility)))
    IN  FAdd(FMul(drift, dt), FMul(step_volatility, z))

RECURSIVE CumProd(_)
\* np.cumprod along one row
CumProd(s) ==
    IF s = <<>> THEN <<>>
    ELSE LET front == CumProd(SubSeq(s, 1, Len(s) - 1))
         IN  IF front = <<>> THEN s
             ELSE Append(front, FMul(front[Len(front)], s[Len(s)]))

\* Lines 176-177: end_of_step_price, with the column of S0 in front
EndOfStepPrice(self, steps, Z) ==
    [i \in 1..Len(Z) |->
        LET factors == [j \in 1..steps |-> Exp(LogReturn(self, steps, Z[i][j]))]
            prod    == CumProd(factors)
        IN  <<FMul(self.S0, ONE)>> \o [j \in 1..steps |-> FMul(self.S0, prod[j])]]

\* SeedState without the call of np.random.seed
SeedState_unseeded(seed, s) == s

\* Lines 170-171: the generator's state when sampling starts
SeedState(seed, s) == IF seed # <<>> THEN Seeded(seed[1]) ELSE s

\* The call monte_carlo_pricing(steps, num_iters, seed=seed) on self with the
\* generator in state s: what it raises or returns, and what it leaves behind.
\* seed is <<>> for None and <<k>> for the integer k.
Pricing(self, steps, num_iters, seed, s) ==
    LET s1   == SeedState(seed, s)
        fail(e) == [self |-> self, steps |-> steps, num_iters |-> num_iters,
                    seed |-> seed,
                    error |-> e, returned |-> FALSE,
                    draws |-> 0, rng_after |-> s1,
                    cp |-> <<>>, present_value_payoffs |-> <<>>,
                    estimated_value |-> NaN]
        done(e, pv) ==
                   [self |-> self, steps |-> steps, num_iters |-> num_iters,
                    seed |-> seed,
                    error |-> "", returned |-> TRUE,
                    draws |-> num_iters * steps,
                    rng_after |-> RngAfter(s1, num_iters * steps),
                    cp |-> <<e>>, present_value_payoffs |-> pv,
                    estimated_value |-> Mean(pv)]
        priced(e) == done(e, present_value(self, e.payoff))
    IN  IF steps = 0 THEN fail("ZeroDivisionError")                  \* line 174
        ELSE IF steps < 0 \/ num_iters < 0 THEN fail("ValueError")    \* line 175
        ELSE priced(Evaluation(self,
                 EndOfStepPrice(self, steps, Normal(s1, num_iters, steps))))

\* option.monte_carlo_pricing(steps, num_iters, seed=seed); keep says whether
\* the caller holds on to this call's result to compare a later one with it.
MonteCarloPricing(steps, num_iters, seed, keep) ==
    /\ pc = "running"
    /\ option # <<>>
    /\ \E m \in {Pricing(option[1], steps, num_iters, seed, rng)} :
           /\ mc' = <<m>>
           /\ rng' = m.rng_after
           /\ pc' = IF m.returned THEN pc ELSE "exited"
           /\ cp' = m.cp
           /\ option' = IF m.returned THEN option ELSE <<>>
           /\ ref' = IF ~m.returned THEN <<>>
                     ELSE IF keep THEN << Kept(m) >> ELSE Later(ref)
    /\ UNCHANGED ctor

---------------------------------------------------------------------------
(* The calls the model makes *)

Args(ot, bt, s0, k, b, t, vol, r) ==
    [option_type |-> ot, barrier_type |-> bt, S0 |-> s0, K |-> k, B |-> b,
     T |-> t, volatility |-> vol, risk_free_rate |-> r]

\* Constructor arguments, valid and invalid in every position.
CtorArgs ==
    { Args(ot, bt, s0, k, b, t, vol, r) :
        ot \in OptionKinds \cup {"straddle"},
        bt \in BarrierKinds \cup {"knock_out"},
        s0 \in {0, 2 * ONE},
        k \in {-ONE, 2 * ONE},
        b \in {0, 3 * ONE},
        t \in {-ONE, 0, ONE},
        vol \in {-1, 0, HALF, ONE, ONE + 1, NaN},
        r \in {-HALF, HALF} }

\* Valid contracts, and one unknown barrier kind: the barrier below, at and
\* above the initial price, with and without volatility.
PricedArgs ==
    { Args(ot, bt, 2 * ONE, 2 * ONE, b, ONE, vol, HALF) :
        ot \in OptionKinds,
        bt \in BarrierKinds \cup {"knock_out"},
        b \in {ONE + HALF, 2 * ONE, 2 * ONE + HALF},
        vol \in {0, HALF} }

\* The same contract in its eight kinds, the barrier above the initial price
\* for the up kinds and below it for the down kinds.
PairArgs ==
    { Args(ot, bt, 2 * ONE, 2 * ONE,
           IF bt \in {"up_and_out", "up_and_in"} THEN 2 * ONE + HALF ELSE ONE + HALF,
           ONE, HALF, HALF) :
        ot \in OptionKinds, bt \in BarrierKinds }

Steps == -1..MaxSteps
Iters == -1..MaxIters
Seeds == {<<>>} \cup { <<k>> : k \in 0..MaxSeed }

\* Price paths handed to contract_payoff directly: rows of three prices below,
\* at and above the barriers and the strike of PricedArgs, alone or beside a
\* flat row.
Prices  == {ONE + HALF, 2 * ONE, 2 * ONE + HALF}
Rows    == { <<a, b, c>> : a \in Prices, b \in Prices, c \in Prices }
Flat    == { <<a, a, a>> : a \in Prices }
Batches ==
    { <<x>> : x \in Rows } \cup { <<x, y>> : x \in Rows, y \in Flat }
                           \cup { <<y, x>> : x \in Rows, y \in Flat }

Init ==
    /\ pc = "running"
    /\ option = <<>>
    /\ ctor = <<>>
    /\ rng \in 0..(RngMod - 1)
    /\ cp = <<>>
    /\ mc = <<>>
    /\ ref = <<>>

\* The pricing engine: contracts are built and priced, any number of times.
Next ==
    \/ \E a \in PricedArgs : Construct(a)
    \/ \E st \in Steps, n \in Iters, seed \in Seeds :
          MonteCarloPricing(st, n, seed, FALSE)

Spec == Init /\ [][Next]_vars

\* The same, on the eight kinds of one contract and the longest grid with one
\* path or the most, the caller keeping the result of a seeded call to compare
\* later ones with.
NextPair ==
    \/ \E a \in PairArgs : Construct(a)
    \/ \E n \in {1, MaxIters}, seed \in Seeds :
          MonteCarloPricing(MaxSteps, n, seed, FALSE)
    \/ \E n \in {1, MaxIters}, seed \in Seeds \ {<<>>} :
          MonteCarloPricing(MaxSteps, n, seed, TRUE)

SpecPair == Init /\ [][NextPair]_vars

\* The payoff evaluator alone, on paths of the caller's choice.
NextPayoff ==
    \/ \E a \in PricedArgs : Construct(a)
    \/ \E ps \in Batches : ContractPayoff(ps)

SpecPayoff == Init /\ [][NextPayoff]_vars

\* cli(): one contract from the command line's arguments, priced once
\* without a seed.
NextCli ==
    \/ \E a \in CtorArgs : ctor = <<>> /\ Construct(a)
    \/ \E st \in Steps, n \in Iters : mc = <<>> /\ MonteCarloPricing(st, n, <<>>, FALSE)

SpecCli == Init /\ [][NextCli]_vars

---------------------------------------------------------------------------
(* Properties of the payoff evaluator *)

UpKinds  == {"up_and_out", "up_and_in"}
OutKinds == {"up_and_out", "down_and_out"}

\* a row of real numbers
Real(row) == \A k \in 1..Len(row) : ~IsNaN(row[k])

\* The barrier is touched or crossed at some point of the row.
Touches(self, row) ==
    IF self.barrier_type \in UpKinds
        THEN \E k \in 1..Len(row) : row[k] >= self.B
        ELSE \E k \in 1..Len(row) : row[k] <= self.B

\* max(final - strike, 0) for a call, max(strike - final, 0) for a put
Vanilla(self, final) ==
    IF self.option_type = "call"
        THEN (IF final > self.K THEN final - self.K ELSE 0)
        ELSE (IF self.K > final THEN self.K - final ELSE 0)

Last(row) == row[Len(row)]

\* C1: every row of prices handed to contract_payoff is activated iff some
\* element of it, the first included, is >= the barrier (up kinds) or <= the
\* barrier (down kinds); a row starting at or beyond the barrier is activated.
C1_InclusiveActivation ==
    cp # <<>> =>
        LET e == cp[1] IN
        /\ Len(e.barrier_reached) = Len(e.price_series)
        /\ \A i \in 1..Len(e.price_series) :
              Real(e.price_series[i]) =>
                /\ e.barrier_reached[i] \in {0, 1}
                /\ e.barrier_reached[i] = 1 <=> Touches(e.self, e.price_series[i])
                /\ (e.self.barrier_type \in UpKinds /\ e.price_series[i][1] >= e.self.B)
                      => e.barrier_reached[i] = 1
                /\ (e.self.barrier_type \notin UpKinds /\ e.price_series[i][1] <= e.self.B)
                      => e.barrier_reached[i] = 1

\* An up barrier first met, exactly, after the initial price, and activated.
C1_Witness ==
    /\ cp # <<>>
    /\ cp[1].self.barrier_type \in UpKinds
    /\ \E i \in 1..Len(cp[1].price_series) :
          LET row == cp[1].price_series[i] IN
          /\ row[1] < cp[1].self.B
          /\ SeqMax(row) = cp[1].self.B
          /\ cp[1].barrier_reached[i] = 1

\* C2: payoff[i] is the vanilla payoff of row i's last element when the row is
\* not activated (out kinds) or activated (in kinds), and 0 otherwise; nothing
\* else of the row or of the batch enters.
C2_PayoffOfActivationAndFinal ==
    cp # <<>> =>
        LET e == cp[1] IN
        /\ Len(e.payoff) = Len(e.price_series)
        /\ \A i \in 1..Len(e.price_series) :
              Real(e.price_series[i]) =>
                e.payoff[i] =
                    IF Touches(e.self, e.price_series[i]) = (e.self.barrier_type \in OutKinds)
                        THEN 0
                        ELSE Vanilla(e.self, Last(e.price_series[i]))

\* A down-and-in call paying on an activated row whose lowest price is neither
\* its first nor its last, beside a row that pays nothing.
C2_Witness ==
    /\ cp # <<>>
    /\ cp[1].self.barrier_type = "down_and_in"
    /\ cp[1].self.option_type = "call"
    /\ Len(cp[1].price_series) = 2
    /\ cp[1].payoff[1] > 0
    /\ SeqMin(cp[1].price_series[1]) < Last(cp[1].price_series[1])
    /\ SeqMin(cp[1].price_series[1]) < cp[1].price_series[1][1]
    /\ cp[1].payoff[2] = 0

---------------------------------------------------------------------------
(* Properties of two pricing calls *)

SameButKind(x, y) ==
    [x EXCEPT !.barrier_type = ""] = [y EXCEPT !.barrier_type = ""]

\* one call priced the out kind and the other the in kind of one direction
Complementary(x, y) ==
    \/ {x.barrier_type, y.barrier_type} = {"up_and_out", "up_and_in"}
    \/ {x.barrier_type, y.barrier_type} = {"down_and_out", "down_and_in"}

\* the kept call and the last one priced complementary kinds on one batch
SameBatch ==
    /\ ref # <<>>
    /\ mc # <<>>
    /\ mc[1].returned
    /\ SameButKind(ref[1].self, mc[1].self)
    /\ Complementary(ref[1].self, mc[1].self)
    /\ ref[1].cp[1].price_series = mc[1].cp[1].price_series

\* C3: on one batch, the out kind's and the in kind's payoffs of every path
\* add up to the vanilla payoff of its last price, one of the two being that
\* payoff and the other 0; the two estimates add up to the discounted mean
\* vanilla payoff, to the rounding of the mean.
C3_Complementarity ==
    SameBatch =>
        LET self == mc[1].self
            ps   == mc[1].cp[1].price_series
            a    == ref[1].cp[1].payoff
            b    == mc[1].cp[1].payoff
            v    == [i \in 1..Len(ps) |-> Vanilla(self, Last(ps[i]))]
            vbar == Mean(present_value(self, v))
            sum  == ref[1].estimated_value + mc[1].estimated_value
        IN  /\ \A i \in 1..Len(ps) :
                  /\ a[i] + b[i] = v[i]
                  /\ (a[i] = v[i] /\ b[i] = 0) \/ (a[i] = 0 /\ b[i] = v[i])
            /\ vbar - 1 <= sum /\ sum <= vbar

\* Up-and-out then up-and-in on one batch of two paths, one path paying only
\* under the out kind and the other only under the in kind.
C3_Witness ==
    /\ SameBatch
    /\ ref[1].self.barrier_type = "up_and_out"
    /\ mc[1].self.barrier_type = "up_and_in"
    /\ \E i, j \in 1..Len(mc[1].cp[1].payoff) :
          /\ ref[1].cp[1].payoff[i] > 0
          /\ mc[1].cp[1].payoff[j] > 0
    /\ ref[1].estimated_value > 0
    /\ mc[1].estimated_value > 0

\* the kept call and the last one had the same contract, grid and seed
SameSeededCall ==
    /\ ref # <<>>
    /\ mc # <<>>
    /\ mc[1].returned
    /\ mc[1].seed # <<>>
    /\ ref[1].seed = mc[1].seed
    /\ ref[1].self = mc[1].self
    /\ ref[1].steps = mc[1].steps
    /\ ref[1].num_iters = mc[1].num_iters

\* C7: two calls with the same contract, grid and explicit seed return the
\* same estimate, whatever was called between them.
C7_Reproducibility ==
    SameSeededCall => mc[1].estimated_value = ref[1].estimated_value

\* The same seeded call repeated after at least one other call, with a
\* positive estimate.
C7_Witness ==
    /\ SameSeededCall
    /\ ref[1].later >= 2
    /\ mc[1].estimated_value > 0

---------------------------------------------------------------------------
(* Properties of one pricing call *)

\* a contract the data model calls valid
ValidContract(self) ==
    /\ self.option_type \in OptionKinds
    /\ self.barrier_type \in BarrierKinds
    /\ FGt(self.S0, 0) /\ FGt(self.K, 0) /\ FGt(self.B, 0) /\ FGt(self.T, 0)
    /\ FGe(self.volatility, 0) /\ FLe(self.volatility, ONE)
    /\ ~IsNaN(self.risk_free_rate)

ValidGrid(m) == m.steps >= 1 /\ m.num_iters >= 1

\* C8: for a valid contract and grid the payoff vector has num_iters entries,
\* entry i computed from path i, none negative, and the estimate is not
\* negative.
C8_NonNegative ==
    (mc # <<>> /\ mc[1].returned /\ ValidGrid(mc[1]) /\ ValidContract(mc[1].self)) =>
        LET m == mc[1]
            e == m.cp[1]
        IN  /\ Len(e.price_series) = m.num_iters
            /\ Len(e.payoff) = m.num_iters
            /\ \A i \in 1..m.num_iters :
                  /\ FGe(e.payoff[i], 0)
                  /\ e.payoff[i] = contract_payoff(m.self, <<e.price_series[i]>>)[1]
            /\ FGe(m.estimated_value, 0)

\* Two paths, one paying and one not, and a positive estimate.
C8_Witness ==
    /\ mc # <<>>
    /\ mc[1].returned
    /\ mc[1].num_iters = 2
    /\ mc[1].cp[1].payoff[1] > 0
    /\ mc[1].cp[1].payoff[2] = 0
    /\ mc[1].cp[1].price_series[1] # mc[1].cp[1].price_series[2]
    /\ mc[1].estimated_value > 0

RECURSIVE Power(_, _)
\* f multiplied k times, k >= 1
Power(f, k) == IF k = 1 THEN f ELSE FMul(Power(f, k - 1), f)

\* The path with no randomness: S0, then S0 times the growth factor of one
\* step taken k times.
ForwardPath(self, steps) ==
    LET growth == Exp(FMul(self.risk_free_rate, FDiv(self.T, steps * ONE)))
    IN  [k \in 1..(steps + 1) |->
            IF k = 1 THEN self.S0 ELSE FMul(self.S0, Power(growth, k - 1))]

\* S0 * exp(r * T * k / steps)
ForwardPrice(self, steps, k) ==
    FMul(self.S0,
         Exp(FDiv(FMul(FMul(self.risk_free_rate, self.T), k * ONE), steps * ONE)))

\* rounding allowed, per step taken, between the stepwise and the closed-form
\* forward price, in units of 1 / ONE
ForwardTol == 4

\* C9: with volatility 0 every path is the forward path, whatever variates
\* were drawn: element 0 is S0, element k the forward price after k steps
\* (S0 * exp(r * T * k / steps), to the rounding of k multiplications), and the
\* estimate is the discounted payoff of that one path.
C9_ZeroVolatility ==
    (mc # <<>> /\ mc[1].returned /\ ValidGrid(mc[1]) /\ mc[1].self.volatility = 0) =>
        LET m   == mc[1]
            fwd == ForwardPath(m.self, m.steps)
        IN  /\ \A i \in 1..m.num_iters : m.cp[1].price_series[i] = fwd
            /\ fwd[1] = m.self.S0
            /\ \A k \in 1..m.steps :
                  /\ fwd[k + 1] - ForwardPrice(m.self, m.steps, k) <= ForwardTol * k
                  /\ ForwardPrice(m.self, m.steps, k) - fwd[k + 1] <= ForwardTol * k
            /\ m.estimated_value =
                  present_value(m.self, contract_payoff(m.self, <<fwd>>))[1]

\* Two paths of two steps at volatility 0, drawn without a seed from variates
\* that are not all 0, with a positive estimate.
C9_Witness ==
    /\ mc # <<>>
    /\ mc[1].returned
    /\ mc[1].self.volatility = 0
    /\ mc[1].num_iters = 2
    /\ mc[1].steps = 2
    /\ mc[1].seed = <<>>
    /\ mc[1].estimated_value > 0

---------------------------------------------------------------------------
(* Statements the program does not satisfy *)

\* C4: a pricing call with steps <= 0 or num_iters <= 0 fails at entry: it
\* returns no estimate, draws no variate and produces no batch or payoffs.
C4_InvalidGridFails ==
    (mc # <<>> /\ ~ValidGrid(mc[1])) =>
        /\ ~mc[1].returned
        /\ mc[1].draws = 0
        /\ mc[1].cp = <<>>

\* C10: a pricing call leaves the process-wide generator as it found it.
C10_GeneratorUntouched ==
    [][(\E st \in Steps, n \in Iters, seed \in Seeds :
           MonteCarloPricing(st, n, seed, FALSE)) => rng' = rng]_vars

NonPositive(x) == ~FGt(x, 0)

HasNonPositive(o) ==
    NonPositive(o.S0) \/ NonPositive(o.K) \/ NonPositive(o.B) \/ NonPositive(o.T)

\* C5: construction with a non-positive initial price, strike, barrier or
\* maturity fails; no object has such a field and no pricing call runs on one.
C5_NonPositiveRejected ==
    /\ ctor # <<>> => (HasNonPositive(ctor[1].args) => ctor[1].exit)
    /\ option # <<>> => ~HasNonPositive(option[1])
    /\ mc # <<>> => ~HasNonPositive(mc[1].self)

InUnitInterval(x) == FGe(x, 0) /\ FLe(x, ONE)

KindsAndVolatilityValid(o) ==
    /\ o.option_type \in OptionKinds
    /\ o.barrier_type \in BarrierKinds
    /\ InUnitInterval(o.volatility)

\* C6: construction stores nothing and fails for an unknown option kind, an
\* unknown barrier kind or a volatility outside [0, 1], and stores the
\* arguments unchanged otherwise, volatility 0 and 1 included; every object
\* held or priced has known kinds and a volatility in [0, 1].
C6_KindsAndVolatilityValidated ==
    /\ ctor # <<>> =>
          IF KindsAndVolatilityValid(ctor[1].args)
              THEN ~ctor[1].exit /\ ctor[1].self = <<ctor[1].args>>
              ELSE ctor[1].exit /\ ctor[1].self = <<>>
    /\ option # <<>> => KindsAndVolatilityValid(option[1])
    /\ mc # <<>> => KindsAndVolatilityValid(mc[1].self)

====
